---- MODULE Spec2Model ----
(***************************************************************************)
(* Model of amqp-lapin-helper (src/src/lib.rs): the Consumer's listener    *)
(* registry, the dispatch loop Consumer::consume with its inline semaphore *)
(* acquisition, the per-delivery task consume_async with its ack / reject  *)
(* policy, and the Publisher's publish / publish_raw.                      *)
(*                                                                         *)
(* A delivery is identified by its position in the order the transport     *)
(* stream yields it.  A semaphore is identified by the position of the     *)
(* Listener it was created for (Listener::new creates one per Listener).   *)
(*                                                                         *)
(* Spec is the Consumer from Consumer::new on, with its callers; LoopSpec  *)
(* is a loop already started on a given registry; BrokerSpec is such a     *)
(* loop on one handler of two permits and three deliveries, together with  *)
(* the Publisher and its callers.                                          *)
(***************************************************************************)
EXTENDS Integers, Sequences, FiniteSets, TLC

\* ------------------------------------------------------------------ bounds
\* Number of deliveries the transport stream yields at most.
MaxMsgs == 2
\* Number of add_listener calls at most.
MaxListeners == 2
\* Largest max_concurrent_tasks a registered handler overrides the default with.
MaxConcurrent == 2

\* ------------------------------------------------------- program constants
\* BrokerListener::max_concurrent_tasks, the trait's default body.
DefaultMaxConcurrentTasks == 1

\* ------------------------------------------------------------ value spaces
\* Exchanges of the broker: handlers are written for them and deliveries carry
\* them.  A delivery is unroutable when no handler for its exchange was added.
Exchanges == {"orders", "payments"}

\* The application's BrokerListener implementations: two for the same
\* exchange (one overriding max_concurrent_tasks, one keeping the default)
\* and one for another exchange.
Handlers ==
    { [name |-> "OrdersWide",  exchange |-> "orders",   max |-> MaxConcurrent],
      [name |-> "OrdersOne",   exchange |-> "orders",   max |-> DefaultMaxConcurrentTasks],
      [name |-> "PaymentsOne", exchange |-> "payments", max |-> DefaultMaxConcurrentTasks] }

exchange_name(h) == h.exchange
max_concurrent_tasks(h) == h.max

\* Positions of the transport stream that can hold a delivery.
Deliveries == 1..MaxMsgs

VARIABLES
    consumer,    \* Consumer.consumer : Option<lapin::Consumer>, TRUE iff Some
    listeners,   \* Consumer.listeners : Option<Vec<Listener>>
    semaphores,  \* available permits of every Semaphore created, by Listener position
    apiPanic,    \* message of the expect() that panicked in the caller, or "none"
    registry,    \* the Vec<Listener> moved out of the Consumer by spawn / get_consumer
    loop,        \* Consumer::consume: its position, current delivery and matched listener
    yielded,     \* the items consumer.next() has produced so far, in order
    spawned,     \* deliveries in the order task::spawn(consume_async(..)) was called
    tasks,       \* consume_async per delivery
    calls,       \* ack / reject / nack calls issued on every delivery, in order
    gaugeMax,    \* STAT_CONCURRENT_TASK{exchange, "max"}
    gaugeUsed,   \* STAT_CONCURRENT_TASK{exchange, "permits_used"}
    publisher    \* Publisher::publish / publish_raw: the invocation in progress

vars == << consumer, listeners, semaphores, apiPanic, registry, loop, yielded,
           spawned, tasks, calls, gaugeMax, gaugeUsed, publisher >>

apiVars  == << consumer, listeners, apiPanic >>
loopVars == << registry, loop, yielded, spawned >>
statVars == << gaugeMax, gaugeUsed >>

\* Number of deliveries the broker holds for this consumer: consume_async has
\* one entry in tasks for each.
Queued == Cardinality(DOMAIN tasks)

\* ------------------------------------------------------------------ helpers
None == [some |-> FALSE, vec |-> << >>]
Some(v) == [some |-> TRUE, vec |-> v]

\* The messages of the expect() calls of the Consumer's methods.
NoListenersFound == "No listeners found"
NoConsumerSet == "A consumer hasn't been set."

\* Items of the transport stream: Some(Ok(delivery)), Some(Err(err)), None.
ItemDelivery(exchange) == [kind |-> "delivery", exchange |-> exchange]
ItemErr == [kind |-> "error", exchange |-> ""]
ItemNone == [kind |-> "end", exchange |-> ""]

\* Mutant of SemaphoreNew: one permit more than max_concurrent_tasks.
SemaphoreNew_OneMore(permits) == permits + 1

\* Semaphore::new(permits)
SemaphoreNew(permits) == permits

\* Listener::new: wraps the handler and creates its own semaphore.
ListenerNew(h, sem) == [inner |-> h, semaphore |-> sem]

\* Mutant of find: the last match instead of the first.
RECURSIVE FindLastFrom(_, _, _)
FindLastFrom(vec, exchange, i) ==
    IF i < 1 THEN 0
    ELSE IF exchange_name(vec[i].inner) = exchange THEN i
    ELSE FindLastFrom(vec, exchange, i - 1)

find_Last(vec, exchange) == FindLastFrom(vec, exchange, Len(vec))

\* listeners.iter().find(|l| l.listener().exchange_name() == delivery.exchange):
\* position of the first match, 0 when there is none.
RECURSIVE FindFrom(_, _, _)
FindFrom(vec, exchange, i) ==
    IF i > Len(vec) THEN 0
    ELSE IF exchange_name(vec[i].inner) = exchange THEN i
    ELSE FindFrom(vec, exchange, i + 1)

find(vec, exchange) == FindFrom(vec, exchange, 1)

\* Semaphore::acquire_owned resolves only when a permit is available.
PermitAvailable(available) == available > 0

\* Result<(), bool> of BrokerListener::consume
ConsumeOk == [ok |-> TRUE, requeue |-> FALSE]
ConsumeErr(requeue) == [ok |-> FALSE, requeue |-> requeue]
ConsumeResults == {ConsumeOk, ConsumeErr(TRUE), ConsumeErr(FALSE)}

Ack == [kind |-> "ack", requeue |-> FALSE]
Reject(requeue) == [kind |-> "reject", requeue |-> requeue]
\* BasicNackOptions::default(): requeue = false
Nack == [kind |-> "nack", requeue |-> FALSE]

\* Mutant of Acknowledgements: the ack is not in an else branch, so that a
\* rejected delivery is acked as well.
Acknowledgements_FallThrough(res) ==
    IF res.ok THEN << Ack >> ELSE << Reject(res.requeue), Ack >>

\* Mutant of Acknowledgements: the branches are swapped.
Acknowledgements_Swapped(res) ==
    IF res.ok THEN << Reject(FALSE) >> ELSE << Ack >>

\* Mutant of Acknowledgements: options.requeue is left at its default.
Acknowledgements_DefaultRequeue(res) ==
    IF res.ok THEN << Ack >> ELSE << Reject(FALSE) >>

\* The calls consume_async makes on the delivery for a result of consume:
\* reject with options.requeue = requeue for Err(requeue), ack otherwise.
Acknowledgements(res) == IF res.ok THEN << Ack >> ELSE << Reject(res.requeue) >>

NoTask == [pc |-> "none", listener |-> 0, res |-> ConsumeOk, permit |-> FALSE,
           releases |-> 0, observations |-> 0]

\* Values handed to Publisher::publish: bincode encodes an "Order"; it fails on
\* a "Stream", a sequence whose length is not known.
Entities == {"Order", "Stream"}

\* bincode::serialize(entity)
serialize(entity) ==
    IF entity = "Order" THEN [ok |-> TRUE, value |-> "bytes"]
    ELSE [ok |-> FALSE, value |-> "SequenceMustHaveLength"]

\* What Channel::basic_publish(..).await resolves to: Ok(PublisherConfirm) or
\* Err(lapin::Error).
PublishOutcomes ==
    { [ok |-> TRUE,  value |-> "confirm_a"], [ok |-> TRUE,  value |-> "confirm_b"],
      [ok |-> FALSE, value |-> "InvalidChannelState"], [ok |-> FALSE, value |-> "IOError"] }

\* Result<PublisherConfirm>: Ok(confirm), Err(Error::Amqp(e)), Err(Error::Bincode(e)).
NoResult == [ok |-> FALSE, kind |-> "none", value |-> ""]
NoAnswer == [ok |-> FALSE, value |-> ""]
ErrAmqp(e) == [ok |-> FALSE, kind |-> "Amqp", value |-> e]
ErrBincode(e) == [ok |-> FALSE, kind |-> "Bincode", value |-> e]

\* Mutant of map_err: the transport's error is replaced by a general one.
map_err_Opaque(res) ==
    IF res.ok THEN [ok |-> TRUE, kind |-> "PublisherConfirm", value |-> res.value]
    ELSE ErrAmqp("publish failed")

\* res.map_err(|e| Error::Amqp(e))
map_err(res) ==
    IF res.ok THEN [ok |-> TRUE, kind |-> "PublisherConfirm", value |-> res.value]
    ELSE ErrAmqp(res.value)

\* Publisher::new, no publish called yet.  The fields after channel are those
\* of the invocation in progress or last returned: publishes counts its
\* basic_publish calls, answer is what the transport resolved the call to.
PublisherNew == [channel |-> FALSE, pc |-> "idle", op |-> "none", entity |-> "none",
                 timer |-> FALSE, observations |-> 0, publishes |-> 0,
                 answer |-> NoAnswer, result |-> NoResult]

\* ---------------------------------------------------------------------- Init
\* Consumer::new, nothing consumed yet.
Init ==
    /\ consumer = FALSE
    /\ listeners = Some(<< >>)
    /\ semaphores = << >>
    /\ apiPanic = "none"
    /\ registry = << >>
    /\ loop = [pc |-> "unstarted", delivery |-> 0, listener |-> 0, result |-> "none"]
    /\ yielded = << >>
    /\ spawned = << >>
    /\ tasks = [d \in Deliveries |-> NoTask]
    /\ calls = [d \in Deliveries |-> << >>]
    /\ gaugeMax = [e \in Exchanges |-> 0]
    /\ gaugeUsed = [e \in Exchanges |-> 0]
    /\ publisher = PublisherNew

\* ------------------------------------------------------------ Consumer API
\* Consumer::set_consumer.  (In every method below: a caller whose call has
\* panicked makes no further call.)
set_consumer ==
    /\ apiPanic = "none"
    /\ consumer = FALSE
    /\ consumer' = TRUE
    /\ UNCHANGED << publisher, listeners, semaphores, apiPanic, loopVars, tasks, calls, statVars >>

\* Consumer::add_listener: expect() on the listener list, then push(Listener::new(..)).
\* The application adds each of its handlers once, MaxListeners of them at most.
add_listener(h) ==
    /\ apiPanic = "none"
    /\ IF listeners.some
       THEN /\ Len(listeners.vec) < MaxListeners
            /\ \A i \in 1..Len(listeners.vec) : listeners.vec[i].inner # h
            /\ semaphores' = Append(semaphores, SemaphoreNew(max_concurrent_tasks(h)))
            /\ listeners' = Some(Append(listeners.vec, ListenerNew(h, Len(semaphores) + 1)))
            /\ UNCHANGED apiPanic
       ELSE /\ apiPanic' = NoListenersFound
            /\ UNCHANGED << listeners, semaphores >>
    /\ UNCHANGED << publisher, consumer, loopVars, tasks, calls, statVars >>

\* Mutant of spawn: the listener list is cloned for the loop and stays in the
\* Consumer.
spawn_Clone ==
    /\ apiPanic = "none"
    /\ IF ~consumer
       THEN /\ apiPanic' = NoConsumerSet
            /\ UNCHANGED << listeners, registry, loop >>
       ELSE IF ~listeners.some
       THEN /\ apiPanic' = NoListenersFound
            /\ UNCHANGED << listeners, registry, loop >>
       ELSE /\ registry' = listeners.vec
            /\ loop' = [loop EXCEPT !.pc = "next"]
            /\ UNCHANGED << listeners, apiPanic >>
    /\ UNCHANGED << publisher, consumer, semaphores, yielded, spawned, tasks, calls, statVars >>

\* Consumer::spawn: expect() on the transport consumer, take() the listener
\* list, expect() on it, task::spawn(Consumer::consume(consumer, listeners)).
spawn ==
    /\ apiPanic = "none"
    /\ IF ~consumer
       THEN /\ apiPanic' = NoConsumerSet
            /\ UNCHANGED << listeners, registry, loop >>
       ELSE IF ~listeners.some
       THEN /\ apiPanic' = NoListenersFound
            /\ UNCHANGED << listeners, registry, loop >>
       ELSE /\ registry' = listeners.vec
            /\ listeners' = None
            /\ loop' = [loop EXCEPT !.pc = "next"]
            /\ UNCHANGED apiPanic
    /\ UNCHANGED << publisher, consumer, semaphores, yielded, spawned, tasks, calls, statVars >>

\* Consumer::get_consumer: as spawn, but the pair is returned to the caller.
get_consumer ==
    /\ apiPanic = "none"
    /\ IF ~consumer
       THEN /\ apiPanic' = NoConsumerSet
            /\ UNCHANGED << listeners, registry, loop >>
       ELSE IF ~listeners.some
       THEN /\ apiPanic' = NoListenersFound
            /\ UNCHANGED << listeners, registry, loop >>
       ELSE /\ registry' = listeners.vec
            /\ listeners' = None
            /\ loop' = [loop EXCEPT !.pc = "returned"]
            /\ UNCHANGED apiPanic
    /\ UNCHANGED << publisher, consumer, semaphores, yielded, spawned, tasks, calls, statVars >>

\* The caller of get_consumer runs Consumer::consume(consumer, listeners) itself.
consume_call ==
    /\ loop.pc = "returned"
    /\ loop' = [loop EXCEPT !.pc = "next"]
    /\ UNCHANGED << publisher, apiVars, semaphores, registry, yielded, spawned, tasks, calls,
                    statVars >>

\* ------------------------------------------------- Consumer::consume (loop)
\* consumer.next() yields Ok(delivery): find the listener; when found, set the
\* "max" gauge and go on to acquire a permit; otherwise send the nack.
consume_next_delivery(exchange) ==
    /\ loop.pc = "next"
    /\ Len(yielded) < Queued
    /\ LET d == Len(yielded) + 1
           i == find(registry, exchange)
       IN  /\ yielded' = Append(yielded, ItemDelivery(exchange))
           /\ IF i # 0
              THEN /\ gaugeMax' = [gaugeMax EXCEPT
                                     ![exchange] = max_concurrent_tasks(registry[i].inner)]
                   /\ loop' = [loop EXCEPT !.pc = "acquire", !.delivery = d, !.listener = i]
                   /\ UNCHANGED calls
              ELSE /\ calls' = [calls EXCEPT ![d] = Append(@, Nack)]
                   /\ loop' = [loop EXCEPT !.pc = "nack", !.delivery = d, !.listener = 0]
                   /\ UNCHANGED gaugeMax
    /\ UNCHANGED << publisher, apiVars, semaphores, registry, spawned, tasks, gaugeUsed >>

\* Mutant of consume_next_err: the error is logged and the loop goes on.
consume_next_err_Continue ==
    /\ loop.pc = "next"
    /\ Len(yielded) <= Queued
    /\ yielded' = Append(yielded, ItemErr)
    /\ UNCHANGED << publisher, apiVars, semaphores, registry, loop, spawned, tasks, calls, statVars >>

\* Mutant of consume_next_err: returning the error aborts the tasks in flight.
consume_next_err_Abort ==
    /\ loop.pc = "next"
    /\ Len(yielded) <= Queued
    /\ yielded' = Append(yielded, ItemErr)
    /\ loop' = [loop EXCEPT !.pc = "returned_err", !.result = "Err"]
    /\ tasks' = [d \in DOMAIN tasks |->
                   IF tasks[d].pc \in {"none", "done"} THEN tasks[d]
                   ELSE [tasks[d] EXCEPT !.pc = "aborted"]]
    /\ UNCHANGED << publisher, apiVars, semaphores, registry, spawned, calls, statVars >>

\* consumer.next() yields Err(err): Err(err)? returns it to the caller.
consume_next_err ==
    /\ loop.pc = "next"
    /\ Len(yielded) <= Queued
    /\ yielded' = Append(yielded, ItemErr)
    /\ loop' = [loop EXCEPT !.pc = "returned_err", !.result = "Err"]
    /\ UNCHANGED << publisher, apiVars, semaphores, registry, spawned, tasks, calls, statVars >>

\* consumer.next() yields None: the while-let ends, Ok(()) is returned.
consume_next_none ==
    /\ loop.pc = "next"
    /\ Len(yielded) <= Queued
    /\ yielded' = Append(yielded, ItemNone)
    /\ loop' = [loop EXCEPT !.pc = "returned_ok", !.result = "Ok"]
    /\ UNCHANGED << publisher, apiVars, semaphores, registry, spawned, tasks, calls, statVars >>

\* Mutant of consume_nack_done: the unroutable delivery is dropped and the
\* loop goes on when the nack was sent.
consume_nack_done_Continue(ok) ==
    /\ loop.pc = "nack"
    /\ loop' = IF ok THEN [loop EXCEPT !.pc = "next", !.delivery = 0]
               ELSE [loop EXCEPT !.pc = "panicked", !.result = "panic_nack_failed"]
    /\ UNCHANGED << publisher, apiVars, semaphores, registry, yielded, spawned, tasks, calls,
                    statVars >>

\* delivery.nack(..).await completes: panic! in either branch.
consume_nack_done(ok) ==
    /\ loop.pc = "nack"
    /\ loop' = [loop EXCEPT !.pc = "panicked",
                            !.result = IF ok THEN "panic" ELSE "panic_nack_failed"]
    /\ UNCHANGED << publisher, apiVars, semaphores, registry, yielded, spawned, tasks, calls,
                    statVars >>

\* Mutant of consume_acquire: try_acquire_owned, and a delivery that finds no
\* permit is skipped.
consume_acquire_Try ==
    /\ loop.pc = "acquire"
    /\ LET sem == registry[loop.listener].semaphore
       IN  IF PermitAvailable(semaphores[sem])
           THEN /\ semaphores' = [semaphores EXCEPT ![sem] = @ - 1]
                /\ loop' = [loop EXCEPT !.pc = "spawn"]
           ELSE /\ loop' = [loop EXCEPT !.pc = "next", !.delivery = 0, !.listener = 0]
                /\ UNCHANGED semaphores
    /\ UNCHANGED << publisher, apiVars, registry, yielded, spawned, tasks, calls, statVars >>

\* Mutant of consume_acquire: the loop does not wait; a delivery that finds no
\* permit is handed to its task at once and the loop goes on pulling.
consume_acquire_NoWait ==
    /\ loop.pc = "acquire"
    /\ LET sem == registry[loop.listener].semaphore
       IN  semaphores' = [semaphores EXCEPT
                            ![sem] = IF PermitAvailable(@) THEN @ - 1 ELSE @]
    /\ loop' = [loop EXCEPT !.pc = "spawn"]
    /\ UNCHANGED << publisher, apiVars, registry, yielded, spawned, tasks, calls, statVars >>

\* listener.semaphore.clone().acquire_owned().await resolves.
consume_acquire ==
    /\ loop.pc = "acquire"
    /\ LET sem == registry[loop.listener].semaphore
       IN  /\ PermitAvailable(semaphores[sem])
           /\ semaphores' = [semaphores EXCEPT ![sem] = @ - 1]
    /\ loop' = [loop EXCEPT !.pc = "spawn"]
    /\ UNCHANGED << publisher, apiVars, registry, yielded, spawned, tasks, calls, statVars >>

\* Mutant of consume_spawn: the permit is not moved into the task but dropped
\* by the loop at once, and the task drops one all the same.
consume_spawn_PermitDropped ==
    /\ loop.pc = "spawn"
    /\ LET d == loop.delivery
           sem == registry[loop.listener].semaphore
       IN  /\ gaugeUsed' = [gaugeUsed EXCEPT ![yielded[d].exchange] = @ + 1]
           /\ semaphores' = [semaphores EXCEPT ![sem] = @ + 1]
           /\ tasks' = [tasks EXCEPT ![d] = [NoTask EXCEPT !.pc = "spawned",
                                                           !.listener = loop.listener,
                                                           !.permit = TRUE]]
           /\ spawned' = Append(spawned, d)
    /\ loop' = [loop EXCEPT !.pc = "next", !.delivery = 0, !.listener = 0]
    /\ UNCHANGED << publisher, apiVars, registry, yielded, calls, gaugeMax >>

\* Mutant of consume_spawn: the loop awaits the JoinHandle of the task it has
\* spawned before it goes on.
consume_spawn_Joined ==
    /\ loop.pc = "spawn"
    /\ LET d == loop.delivery
       IN  /\ gaugeUsed' = [gaugeUsed EXCEPT ![yielded[d].exchange] = @ + 1]
           /\ tasks' = [tasks EXCEPT ![d] = [NoTask EXCEPT !.pc = "spawned",
                                                           !.listener = loop.listener,
                                                           !.permit = TRUE]]
           /\ spawned' = Append(spawned, d)
    /\ loop' = [loop EXCEPT !.pc = "join"]
    /\ UNCHANGED << publisher, apiVars, semaphores, registry, yielded, calls, gaugeMax >>

\* "permits_used".inc(), then task::spawn(consume_async(delivery, listener, permit)).
consume_spawn ==
    /\ loop.pc = "spawn"
    /\ LET d == loop.delivery
       IN  /\ gaugeUsed' = [gaugeUsed EXCEPT ![yielded[d].exchange] = @ + 1]
           /\ tasks' = [tasks EXCEPT ![d] = [NoTask EXCEPT !.pc = "spawned",
                                                           !.listener = loop.listener,
                                                           !.permit = TRUE]]
           /\ spawned' = Append(spawned, d)
    /\ loop' = [loop EXCEPT !.pc = "next", !.delivery = 0, !.listener = 0]
    /\ UNCHANGED << publisher, apiVars, semaphores, registry, yielded, calls, gaugeMax >>

\* ------------------------------------------------------------ consume_async
\* First poll of the task: start the timer, call listener.consume(&delivery).
consume_async_start(d) ==
    /\ tasks[d].pc = "spawned"
    /\ tasks' = [tasks EXCEPT ![d].pc = "consume"]
    /\ UNCHANGED << publisher, apiVars, semaphores, loopVars, calls, statVars >>

\* BrokerListener::consume returns its result.
consume_returns(d, res) ==
    /\ tasks[d].pc = "consume"
    /\ tasks' = [tasks EXCEPT ![d].pc = "drop_permit", ![d].res = res]
    /\ UNCHANGED << publisher, apiVars, semaphores, loopVars, calls, statVars >>

\* Mutant of consume_async_drop_permit: the drop(permit) statement is missing,
\* the task goes on to acknowledge with the permit still in its hands.
consume_async_drop_permit_Missing(d) ==
    /\ tasks[d].pc = "drop_permit"
    /\ tasks' = [tasks EXCEPT ![d].pc = "acknowledge"]
    /\ UNCHANGED << publisher, apiVars, semaphores, loopVars, calls, statVars >>

\* drop(permit)
consume_async_drop_permit(d) ==
    /\ tasks[d].pc = "drop_permit"
    /\ LET sem == registry[tasks[d].listener].semaphore
       IN  semaphores' = [semaphores EXCEPT ![sem] = @ + 1]
    /\ tasks' = [tasks EXCEPT ![d].pc = "acknowledge", ![d].permit = FALSE,
                              ![d].releases = @ + 1]
    /\ UNCHANGED << publisher, apiVars, loopVars, calls, statVars >>

\* "permits_used".dec(), histogram_timer.observe_duration(), then
\* delivery.reject(options) for Err(requeue), delivery.ack(..) otherwise.
consume_async_acknowledge(d) ==
    /\ tasks[d].pc = "acknowledge"
    /\ gaugeUsed' = [gaugeUsed EXCEPT ![yielded[d].exchange] = @ - 1]
    /\ calls' = [calls EXCEPT ![d] = @ \o Acknowledgements(tasks[d].res)]
    /\ tasks' = [tasks EXCEPT ![d].pc = "sending", ![d].observations = @ + 1]
    /\ UNCHANGED << publisher, apiVars, semaphores, loopVars, gaugeMax >>

\* The ack / reject call completes: with Ok the task ends (after warn! for a
\* reject), with Err it goes on to the error! statement.
consume_async_sent(d, ok) ==
    /\ tasks[d].pc = "sending"
    /\ tasks' = [tasks EXCEPT ![d].pc = IF ok THEN "done" ELSE "log_error"]
    /\ UNCHANGED << publisher, apiVars, semaphores, loopVars, calls, statVars >>

\* Mutant of consume_async_log_error: the failed ack / reject is made again.
consume_async_log_error_Retry(d) ==
    /\ tasks[d].pc = "log_error"
    /\ calls' = [calls EXCEPT ![d] = @ \o Acknowledgements(tasks[d].res)]
    /\ tasks' = [tasks EXCEPT ![d].pc = "sending"]
    /\ UNCHANGED << publisher, apiVars, semaphores, loopVars, statVars >>

\* Mutant of consume_async_log_error: the failed ack / reject is escalated and
\* brings the loop down.
consume_async_log_error_Escalate(d) ==
    /\ tasks[d].pc = "log_error"
    /\ tasks' = [tasks EXCEPT ![d].pc = "done"]
    /\ loop' = [loop EXCEPT !.pc = "panicked", !.result = "panic"]
    /\ UNCHANGED << publisher, apiVars, semaphores, registry, yielded, spawned, calls,
                    statVars >>

\* error!("Can't ack / reject message ..."): nothing else is done about the
\* failed call, the task ends.
consume_async_log_error(d) ==
    /\ tasks[d].pc = "log_error"
    /\ tasks' = [tasks EXCEPT ![d].pc = "done"]
    /\ UNCHANGED << publisher, apiVars, semaphores, loopVars, calls, statVars >>

\* ---------------------------------------------------------------- Publisher
consumerVars == << consumer, listeners, semaphores, apiPanic, registry, loop, yielded,
                   spawned, tasks, calls, gaugeMax, gaugeUsed >>

\* Broker::setup_publisher: the Publisher gets its channel.
setup_publisher ==
    /\ ~publisher.channel
    /\ publisher.pc = "idle"
    /\ publisher' = [publisher EXCEPT !.channel = TRUE]
    /\ UNCHANGED consumerVars

\* Publisher::publish up to its await: bincode::serialize(entity)? returns the
\* error to the caller; otherwise start_timer(), self.channel() (expect) and
\* the basic_publish call.  The timer of a panicking call is dropped by the
\* unwinding, and it is the metrics library's matter whether that records.
publish(entity) ==
    /\ publisher.pc \in {"idle", "returned"}
    /\ LET ser == serialize(entity)
           call == [publisher EXCEPT !.op = "publish", !.entity = entity,
                                     !.timer = FALSE, !.observations = 0,
                                     !.publishes = 0, !.answer = NoAnswer,
                                     !.result = NoResult]
       IN  IF ~ser.ok
           THEN publisher' = [call EXCEPT !.pc = "returned",
                                          !.result = ErrBincode(ser.value)]
           ELSE IF ~publisher.channel
           THEN \E n \in {0, 1} :
                    publisher' = [call EXCEPT !.pc = "panicked", !.observations = n]
           ELSE publisher' = [call EXCEPT !.pc = "basic_publish", !.timer = TRUE,
                                          !.publishes = 1]
    /\ UNCHANGED consumerVars

\* Publisher::publish_raw up to its await: as publish, without the encoding.
publish_raw ==
    /\ publisher.pc \in {"idle", "returned"}
    /\ LET call == [publisher EXCEPT !.op = "publish_raw", !.entity = "none",
                                     !.timer = FALSE, !.observations = 0,
                                     !.publishes = 0, !.answer = NoAnswer,
                                     !.result = NoResult]
       IN  IF ~publisher.channel
           THEN \E n \in {0, 1} :
                    publisher' = [call EXCEPT !.pc = "panicked", !.observations = n]
           ELSE publisher' = [call EXCEPT !.pc = "basic_publish", !.timer = TRUE,
                                          !.publishes = 1]
    /\ UNCHANGED consumerVars

\* Mutant of basic_publish_returns: the result is unwrapped with ? right after
\* the await, so that a transport error returns before observe_duration().
basic_publish_returns_EarlyReturn(res) ==
    /\ publisher.pc = "basic_publish"
    /\ publisher' = [publisher EXCEPT !.pc = "returned", !.timer = FALSE,
                                      !.observations = IF res.ok THEN @ + 1 ELSE @,
                                      !.answer = res, !.result = map_err(res)]
    /\ UNCHANGED consumerVars

\* basic_publish(..).await resolves to res: histogram_timer.observe_duration(),
\* then res.map_err(|e| Error::Amqp(e)) is returned.
basic_publish_returns(res) ==
    /\ publisher.pc = "basic_publish"
    /\ publisher' = [publisher EXCEPT !.pc = "returned", !.timer = FALSE,
                                      !.observations = @ + 1,
                                      !.answer = res, !.result = map_err(res)]
    /\ UNCHANGED consumerVars

\* ---------------------------------------------------------------------- Next
Next ==
    \/ set_consumer
    \/ \E h \in Handlers : add_listener(h)
    \/ spawn
    \/ get_consumer
    \/ consume_call
    \/ \E e \in Exchanges : consume_next_delivery(e)
    \/ consume_next_err
    \/ consume_next_none
    \/ \E ok \in BOOLEAN : consume_nack_done(ok)
    \/ consume_acquire
    \/ consume_spawn
    \/ \E d \in Deliveries : consume_async_start(d)
    \/ \E d \in Deliveries, res \in ConsumeResults : consume_returns(d, res)
    \/ \E d \in Deliveries : consume_async_drop_permit(d)
    \/ \E d \in Deliveries : consume_async_acknowledge(d)
    \/ \E d \in Deliveries, ok \in BOOLEAN : consume_async_sent(d, ok)
    \/ \E d \in Deliveries : consume_async_log_error(d)

Spec == Init /\ [][Next]_vars

\* The runtime goes on polling a task that can run: the statements of
\* consume_async after consume(..).await wait for nothing and are executed.
\* Nothing is assumed about the transport, about the time
\* BrokerListener::consume takes or about the broker's answers.
Fairness ==
    \A d \in Deliveries :
        /\ WF_vars(consume_async_drop_permit(d))
        /\ WF_vars(consume_async_acknowledge(d))

\* ------------------------------------------------------------ a running loop
\* The state after add_listener for every handler of vec in turn, set_consumer
\* and spawn, with n deliveries held by the broker for this consumer.
Started(vec, n) ==
    /\ consumer = TRUE
    /\ listeners = None
    /\ semaphores = [i \in 1..Len(vec) |-> SemaphoreNew(max_concurrent_tasks(vec[i]))]
    /\ apiPanic = "none"
    /\ registry = [i \in 1..Len(vec) |-> ListenerNew(vec[i], i)]
    /\ loop = [pc |-> "next", delivery |-> 0, listener |-> 0, result |-> "none"]
    /\ yielded = << >>
    /\ spawned = << >>
    /\ tasks = [d \in 1..n |-> NoTask]
    /\ calls = [d \in 1..n |-> << >>]
    /\ gaugeMax = [e \in Exchanges |-> 0]
    /\ gaugeUsed = [e \in Exchanges |-> 0]
    /\ publisher = PublisherNew

\* The registries the loop is started with.  In the first, a handler of
\* several permits comes before a one-permit handler for the same exchange,
\* and the other exchange has no handler; in the second, each exchange has
\* its handler of one permit.
StartedRegistries ==
    { << [name |-> "OrdersWide", exchange |-> "orders", max |-> MaxConcurrent],
         [name |-> "OrdersOne", exchange |-> "orders", max |-> DefaultMaxConcurrentTasks] >>,
      << [name |-> "OrdersOne", exchange |-> "orders", max |-> DefaultMaxConcurrentTasks],
         [name |-> "PaymentsOne", exchange |-> "payments",
          max |-> DefaultMaxConcurrentTasks] >> }

LoopInit == \E vec \in StartedRegistries : Started(vec, MaxMsgs)

\* Consumer::consume and the consume_async tasks it spawns.
LoopNext ==
    \/ \E e \in Exchanges : consume_next_delivery(e)
    \/ consume_next_err
    \/ consume_next_none
    \/ \E ok \in BOOLEAN : consume_nack_done(ok)
    \/ consume_acquire
    \/ consume_spawn
    \/ \E d \in Deliveries : consume_async_start(d)
    \/ \E d \in Deliveries, res \in ConsumeResults : consume_returns(d, res)
    \/ \E d \in Deliveries : consume_async_drop_permit(d)
    \/ \E d \in Deliveries : consume_async_acknowledge(d)
    \/ \E d \in Deliveries, ok \in BOOLEAN : consume_async_sent(d, ok)
    \/ \E d \in Deliveries : consume_async_log_error(d)

\* A loop started by spawn on one of StartedRegistries.
LoopSpec == LoopInit /\ [][LoopNext]_vars

\* A started loop whose tasks are polled on (Fairness), nothing else assumed.
FairSpec == LoopSpec /\ Fairness

\* Fair scheduling of the loop and of the tasks, a transport stream that
\* yields its next item, and handlers whose consume returns.
Progress ==
    /\ WF_vars(\E e \in Exchanges : consume_next_delivery(e))
    /\ WF_vars(consume_next_err \/ consume_next_none)
    /\ WF_vars(\E ok \in BOOLEAN : consume_nack_done(ok))
    /\ WF_vars(consume_acquire)
    /\ WF_vars(consume_spawn)
    /\ \A d \in Deliveries :
           /\ WF_vars(consume_async_start(d))
           /\ WF_vars(\E res \in ConsumeResults : consume_returns(d, res))
           /\ WF_vars(consume_async_drop_permit(d))
           /\ WF_vars(consume_async_acknowledge(d))
           /\ WF_vars(\E ok \in BOOLEAN : consume_async_sent(d, ok))
           /\ WF_vars(consume_async_log_error(d))

ProgressSpec == LoopSpec /\ Progress

\* ------------------------------------------- the Broker: publisher and consumer
\* A handler of two permits and the three deliveries the transport yields for it.
ScenarioHandler == [name |-> "OrdersTwo", exchange |-> "orders", max |-> 2]
ScenarioStream == << "orders", "orders", "orders" >>
ScenarioDeliveries == 1..Len(ScenarioStream)

BrokerInit == Started(<< ScenarioHandler >>, Len(ScenarioStream))

\* The publisher's callers, the loop on the scenario's stream and its tasks.
BrokerNext ==
    \/ setup_publisher
    \/ \E entity \in Entities : publish(entity)
    \/ publish_raw
    \/ \E res \in PublishOutcomes : basic_publish_returns(res)
    \/ /\ Len(yielded) < Len(ScenarioStream)
       /\ consume_next_delivery(ScenarioStream[Len(yielded) + 1])
    \/ /\ Len(yielded) = Len(ScenarioStream)
       /\ consume_next_none
    \/ consume_acquire
    \/ consume_spawn
    \/ \E d \in ScenarioDeliveries : consume_async_start(d)
    \/ \E d \in ScenarioDeliveries, res \in ConsumeResults : consume_returns(d, res)
    \/ \E d \in ScenarioDeliveries : consume_async_drop_permit(d)
    \/ \E d \in ScenarioDeliveries : consume_async_acknowledge(d)
    \/ \E d \in ScenarioDeliveries, ok \in BOOLEAN : consume_async_sent(d, ok)
    \/ \E d \in ScenarioDeliveries : consume_async_log_error(d)

BrokerSpec == BrokerInit /\ [][BrokerNext]_vars

\* ===================================================================== claims
\* Positions of the listeners of the running loop's registry.
Listeners == 1..Len(registry)

\* The deliveries whose task is inside BrokerListener::consume of listener i.
InConsume(i) == {d \in Deliveries : tasks[d].pc = "consume" /\ tasks[d].listener = i}

\* The deliveries for which consume_async was spawned.
Spawned == {d \in Deliveries : tasks[d].pc # "none"}

\* The task of d has got the result of consume.
Returned(d) ==
    tasks[d].pc \in {"drop_permit", "acknowledge", "sending", "log_error", "done"}

\* The task of d has made its call on the delivery.
Acknowledged(d) == tasks[d].pc \in {"sending", "log_error", "done"}

\* C1: for every registered handler, the number of its consume invocations
\* that have started and not yet returned never exceeds its
\* max_concurrent_tasks.
C1_MaxConcurrent ==
    \A i \in Listeners :
        Cardinality(InConsume(i)) <= max_concurrent_tasks(registry[i].inner)

\* C1 witness: a handler has max_concurrent_tasks invocations running while
\* the loop waits for a permit of that handler for one more delivery.
C1_Witness ==
    \E i \in Listeners :
        /\ Cardinality(InConsume(i)) = max_concurrent_tasks(registry[i].inner)
        /\ loop.pc = "acquire"
        /\ loop.listener = i

\* C2: every spawned task releases its permit exactly once, after its consume
\* returned and before its ack / reject call is issued: no task has released
\* more than once, a release implies a returned consume, a call on the
\* delivery implies the release, and a task holds its permit exactly as long
\* as it has not released.
C2_ReleaseOnceBetween ==
    \A d \in Spawned :
        /\ tasks[d].releases <= 1
        /\ tasks[d].permit = (tasks[d].releases = 0)
        /\ (tasks[d].releases = 1 => Returned(d))
        /\ (calls[d] # << >> => tasks[d].releases = 1)
        /\ (Acknowledged(d) => tasks[d].releases = 1)

\* C2 witness: a task has released its permit and not yet made its call.
C2_Witness ==
    \E d \in Spawned :
        /\ tasks[d].releases = 1
        /\ tasks[d].pc = "acknowledge"
        /\ calls[d] = << >>

\* C3: no delivery gets more than one ack / reject / nack call, and no
\* delivery is handed to more than one task.
C3_AtMostOneCall ==
    /\ \A d \in Deliveries : Len(calls[d]) <= 1
    /\ \A j, k \in 1..Len(spawned) : spawned[j] = spawned[k] => j = k

\* C3 witness: every task of two deliveries has ended, each with one call.
C3_Witness ==
    /\ Len(spawned) = 2
    /\ \A d \in Spawned : tasks[d].pc = "done" /\ Len(calls[d]) = 1

\* C4: a task whose consume returned Ok makes no reject call, and once it has
\* acknowledged it has made exactly one ack call.
C4_SuccessAcks ==
    \A d \in Spawned :
        (Returned(d) /\ tasks[d].res.ok) =>
            /\ \A k \in 1..Len(calls[d]) : calls[d][k].kind = "ack"
            /\ (Acknowledged(d) => calls[d] = << Ack >>)

\* C4 witness: a task whose consume returned Ok has ended.
C4_Witness ==
    \E d \in Spawned : tasks[d].pc = "done" /\ tasks[d].res.ok

\* C5: a task whose consume returned Err(requeue) makes no ack call, and once
\* it has acknowledged it has made exactly one reject call, with that flag.
C5_FailureRejects ==
    \A d \in Spawned :
        (Returned(d) /\ ~tasks[d].res.ok) =>
            /\ \A k \in 1..Len(calls[d]) : calls[d][k].kind = "reject"
            /\ (Acknowledged(d) => calls[d] = << Reject(tasks[d].res.requeue) >>)

\* C5 witness: one task has ended after Err(true), another after Err(false).
C5_Witness ==
    \E d1, d2 \in Spawned :
        /\ tasks[d1].pc = "done" /\ tasks[d1].res = ConsumeErr(TRUE)
        /\ tasks[d2].pc = "done" /\ tasks[d2].res = ConsumeErr(FALSE)

\* The deliveries the stream has yielded.
Yielded == {d \in 1..Len(yielded) : yielded[d].kind = "delivery"}

\* No listener of the registry is for the exchange of delivery d.
Unroutable(d) ==
    \A i \in Listeners : exchange_name(registry[i].inner) # yielded[d].exchange

\* The permits of listener i that a task holds.
HeldByTasks(i) == {d \in Deliveries : tasks[d].permit /\ tasks[d].listener = i}

\* C6: a delivery that matches no listener gets exactly one negative
\* acknowledgement with requeue = false, no permit is acquired and no task is
\* spawned for it, and the loop ends with it: the loop waits for the nack or
\* has panicked, and the delivery stays the last item pulled.
C6_UnroutableIsFatal ==
    \A d \in Yielded :
        Unroutable(d) =>
            /\ Len(calls[d]) = 1
            /\ calls[d][1].kind \in {"nack", "reject"}
            /\ calls[d][1].requeue = FALSE
            /\ tasks[d].pc = "none"
            /\ \A k \in 1..Len(spawned) : spawned[k] # d
            /\ \A i \in Listeners :
                   semaphores[registry[i].semaphore] + Cardinality(HeldByTasks(i))
                       = max_concurrent_tasks(registry[i].inner)
            /\ loop.pc \in {"nack", "panicked"}
            /\ loop.delivery = d
            /\ (loop.pc = "panicked") = (loop.result \in {"panic", "panic_nack_failed"})
            /\ d = Len(yielded)

\* C6 witness: after a routed delivery an unroutable one was pulled, its nack
\* failed and the loop has panicked.
C6_Witness ==
    /\ Len(yielded) = 2
    /\ Len(spawned) = 1
    /\ Unroutable(2)
    /\ loop.result = "panic_nack_failed"

\* C7: an error yielded by the stream is the last item the loop ever pulls,
\* and the loop has returned that error.
C7_TransportErrorIsFatal ==
    \A k \in 1..Len(yielded) :
        yielded[k].kind = "error" =>
            /\ k = Len(yielded)
            /\ loop.pc = "returned_err"
            /\ loop.result = "Err"

\* C7 witness: the stream yielded an error after a delivery whose task is
\* still running.
C7_Witness ==
    /\ Len(yielded) = 2
    /\ yielded[2].kind = "error"
    /\ tasks[1].pc = "consume"

\* The task of d is past its call of consume, wherever it is now.
PastConsume(d) == tasks[d].pc \notin {"none", "spawned", "consume"}

\* C8: no task is cancelled: under fair scheduling every task whose consume
\* has returned gets to make its one call on the delivery, whatever the loop
\* does in the meantime.  A task never gets back before the return of its
\* consume, so this is: again and again, every task past its consume has
\* acknowledged, with exactly one call.
C8_TaskAlwaysAcknowledges ==
    []<>(\A d \in Deliveries :
            PastConsume(d) => (Acknowledged(d) /\ Len(calls[d]) = 1))

\* C8 witness: the loop has returned the transport's error while a task whose
\* consume has returned has not yet acknowledged.
C8_Witness ==
    /\ loop.pc = "returned_err"
    /\ \E d \in Spawned : tasks[d].pc = "drop_permit" /\ calls[d] = << >>

\* Listener j comes after another listener for the same exchange.
Shadowed(j) ==
    \E i \in 1..(j - 1) :
        exchange_name(registry[i].inner) = exchange_name(registry[j].inner)

\* The listener the loop or the task of d works with, 0 if none.
ListenerOf(d) ==
    IF tasks[d].pc # "none" THEN tasks[d].listener
    ELSE IF loop.delivery = d THEN loop.listener
    ELSE 0

\* C9: a delivery is routed to the earliest listener for its exchange; a
\* listener that comes after another one for the same exchange is never
\* given a delivery and its semaphore is never acquired.
C9_FirstRegisteredWins ==
    /\ \A d \in Yielded :
           ListenerOf(d) # 0 =>
               /\ exchange_name(registry[ListenerOf(d)].inner) = yielded[d].exchange
               /\ \A j \in 1..(ListenerOf(d) - 1) :
                      exchange_name(registry[j].inner) # yielded[d].exchange
    /\ \A j \in Listeners :
           Shadowed(j) =>
               /\ \A d \in Deliveries : ListenerOf(d) # j
               /\ semaphores[registry[j].semaphore]
                      = max_concurrent_tasks(registry[j].inner)

\* C9 witness: two listeners are for the same exchange and a delivery of that
\* exchange is inside consume.
C9_Witness ==
    \E j \in Listeners :
        /\ Shadowed(j)
        /\ \E d \in Spawned :
               /\ yielded[d].exchange = exchange_name(registry[j].inner)
               /\ tasks[d].pc = "consume"

\* C10: tasks are spawned in the order the stream yields the deliveries: the
\* k-th task spawned is for the k-th item, and every delivery before the last
\* item pulled has its task (and with it its permit).
C10_SpawnedInYieldOrder ==
    /\ \A k \in 1..Len(spawned) : spawned[k] = k
    /\ \A d \in Yielded : d < Len(yielded) => tasks[d].pc # "none"
    /\ loop.pc = "next" => \A d \in Yielded : tasks[d].pc # "none"

\* C10 witness: the call on a later delivery was made while an earlier
\* delivery has none yet.
C10_Witness ==
    \E d1, d2 \in Spawned :
        /\ d1 < d2
        /\ calls[d1] = << >>
        /\ calls[d2] # << >>

\* The semaphore of the listener the loop is acquiring a permit of has none.
LoopSuspended ==
    /\ loop.pc = "acquire"
    /\ ~PermitAvailable(semaphores[registry[loop.listener].semaphore])

\* C11: the permit is acquired inside the loop's iteration.  While the loop
\* is acquiring, its delivery is the last item pulled and has no task; and
\* while the semaphore it waits for has no permit, no step moves the loop,
\* pulls an item of the stream or spawns a task, for any exchange.
C11_AcquireSuspendsTheLoop ==
    /\ [](loop.pc = "acquire" =>
              /\ loop.delivery = Len(yielded)
              /\ tasks[loop.delivery].pc = "none")
    /\ [][LoopSuspended =>
              /\ loop' = loop
              /\ yielded' = yielded
              /\ spawned' = spawned
              /\ \A d \in Deliveries : tasks[d].pc = "none" => tasks'[d].pc = "none"]_vars

\* C11 witness: the loop waits for a permit of a listener whose tasks hold
\* them all, while the listener for the other exchange has all its permits.
C11_Witness ==
    /\ LoopSuspended
    /\ \E j \in Listeners :
           /\ exchange_name(registry[j].inner) # yielded[loop.delivery].exchange
           /\ PermitAvailable(semaphores[registry[j].semaphore])
           /\ InConsume(j) = {}

\* The task of d has left BrokerListener::consume and passed its drop(permit).
PastRelease(d) == tasks[d].pc \in {"acknowledge", "sending", "log_error", "done"}

\* C12: one handler of two permits, deliveries 1, 2 and 3 of its exchange.
\* The loop finds a permit for 1 and for 2 without waiting, and none is left
\* when both hold theirs; 3 has no task while 1 and 2 both hold their
\* permits; once the task of 1 or of 2 is past consume and its release, the
\* loop waiting for 3 finds a permit, whether the ack / reject of that task
\* has completed or not; when the stream has ended and the three tasks are
\* done, three ack / reject calls were made, one on each delivery.
C12_ThreeDeliveriesTwoPermits ==
    /\ (loop.pc = "acquire" /\ loop.delivery \in {1, 2}) =>
           PermitAvailable(semaphores[1])
    /\ (tasks[1].permit /\ tasks[2].permit) =>
           /\ semaphores[1] = 0
           /\ tasks[3].pc = "none"
           /\ loop.pc # "spawn"
    /\ (loop.pc = "acquire" /\ loop.delivery = 3
            /\ (PastRelease(1) \/ PastRelease(2))) =>
           /\ PermitAvailable(semaphores[1])
           /\ ENABLED consume_acquire
    /\ (loop.pc = "returned_ok" /\ \A d \in ScenarioDeliveries : tasks[d].pc = "done") =>
           /\ \A d \in ScenarioDeliveries :
                  Len(calls[d]) = 1 /\ calls[d][1].kind \in {"ack", "reject"}
           /\ Len(calls[1]) + Len(calls[2]) + Len(calls[3]) = 3

\* C12 witness: delivery 3 is inside consume while one of the first two is
\* still inside consume and the ack / reject of the other has not completed.
C12_Witness ==
    /\ tasks[3].pc = "consume"
    /\ tasks[1].pc = "sending"
    /\ tasks[2].pc = "consume"

\* The step is the failure of the ack / reject call of d, or what the task of
\* d does after it.
AckFailureStep(d) ==
    \/ tasks[d].pc = "sending" /\ tasks'[d].pc = "log_error"
    \/ tasks[d].pc = "log_error" /\ tasks'[d] # tasks[d]

\* C13: a failed ack / reject call is only logged.  The task of a failed call
\* has made that one call, and what follows the failure makes no other call
\* on any delivery, leaves the loop, the semaphores and the gauges as they
\* are, touches no other task, and ends the task.
C13_AckFailureSwallowed ==
    /\ [](\A d \in Deliveries :
              tasks[d].pc = "log_error" =>
                  /\ Len(calls[d]) = 1
                  /\ tasks[d].releases = 1
                  /\ ~tasks[d].permit)
    /\ [][\A d \in Deliveries :
              AckFailureStep(d) =>
                  /\ calls' = calls
                  /\ loop' = loop
                  /\ yielded' = yielded
                  /\ spawned' = spawned
                  /\ registry' = registry
                  /\ semaphores' = semaphores
                  /\ gaugeUsed' = gaugeUsed
                  /\ \A e \in Deliveries \ {d} : tasks'[e] = tasks[e]
                  /\ tasks'[d].pc \in {"log_error", "done"}
                  /\ tasks'[d] = [tasks[d] EXCEPT !.pc = tasks'[d].pc]]_vars

\* C13 witness: the call on a delivery has failed while the loop is waiting
\* for the next item and the task of another delivery is inside consume.
C13_Witness ==
    \E d1, d2 \in Spawned :
        /\ tasks[d1].pc = "log_error"
        /\ tasks[d2].pc = "consume"
        /\ loop.pc = "next"

\* The duration observations of the consume invocations: none before the task
\* has called observe_duration(), one from then on, whatever consume returned.
ConsumeObservedOnce ==
    \A d \in ScenarioDeliveries :
        tasks[d].observations = IF Acknowledged(d) THEN 1 ELSE 0

\* C14 as stated: every publish, publish_raw and consume invocation that has
\* returned produced exactly one duration observation, a publish whose
\* encoding failed included.
C14_Original ==
    /\ publisher.pc = "returned" => publisher.observations = 1
    /\ ConsumeObservedOnce

\* C14, amended: a publish whose encoding failed returns without any duration
\* observation (the timer is started after the encoding); every other publish
\* and every publish_raw that has returned, with the confirmation or with the
\* transport's error, produced exactly one, and so did every consume that has
\* returned, with Ok or with Err.
C14_ObservedOnceUnlessEncodeFails ==
    /\ publisher.pc = "returned" =>
           publisher.observations = IF publisher.result.kind = "Bincode" THEN 0 ELSE 1
    /\ publisher.pc = "basic_publish" => publisher.observations = 0 /\ publisher.timer
    /\ ConsumeObservedOnce

\* C14 witness: a publish has returned the encoding error with no observation
\* made, and a consume that returned Err has its one observation.
C14_Witness ==
    /\ publisher.pc = "returned"
    /\ publisher.op = "publish"
    /\ publisher.result.kind = "Bincode"
    /\ publisher.observations = 0
    /\ \E d \in ScenarioDeliveries :
           ~tasks[d].res.ok /\ tasks[d].pc = "done" /\ tasks[d].observations = 1

\* C15: a publish that returned on a value bincode does not encode returned
\* the encode error and made no basic_publish call; every other publish and
\* every publish_raw that returned made exactly one basic_publish call and
\* returned what that call resolved to: its confirmation, or its error as
\* Error::Amqp.  No invocation makes a second call, and none is made by an
\* invocation that has not got as far as the call.
C15_OnePublishCallResultPassedOn ==
    /\ publisher.publishes <= 1
    /\ publisher.pc = "returned" =>
           IF publisher.op = "publish" /\ ~serialize(publisher.entity).ok
           THEN /\ publisher.result = ErrBincode(serialize(publisher.entity).value)
                /\ publisher.publishes = 0
           ELSE /\ publisher.publishes = 1
                /\ publisher.answer \in PublishOutcomes
                /\ publisher.result.ok = publisher.answer.ok
                /\ publisher.result.value = publisher.answer.value
                /\ publisher.result.kind =
                       IF publisher.answer.ok THEN "PublisherConfirm" ELSE "Amqp"
    /\ publisher.pc = "basic_publish" => publisher.publishes = 1
    /\ publisher.pc \in {"idle", "panicked"} => publisher.publishes = 0

\* C15 witness: a publish of an encodable value has returned the error its
\* one basic_publish call resolved to.
C15_Witness ==
    /\ publisher.pc = "returned"
    /\ publisher.op = "publish"
    /\ publisher.entity = "Order"
    /\ publisher.publishes = 1
    /\ publisher.result = ErrAmqp("IOError")

\* The permits of listener i the loop holds: one between the acquire and the
\* task::spawn that hands it to the task.
HeldByLoop(i) == IF loop.pc = "spawn" /\ loop.listener = i THEN 1 ELSE 0

\* C16: for every listener the available permits of its semaphore are between
\* 0 and max_concurrent_tasks, and together with the permits held (by the loop
\* between acquire and spawn, by the tasks that have not dropped theirs) they
\* are max_concurrent_tasks.  Only the loop's acquire takes a permit, one at a
\* time, only a task's drop gives one back, one at a time, and the registry
\* with its capacities never changes.
C16_PermitsConserved ==
    /\ [](\A i \in Listeners :
              LET available == semaphores[registry[i].semaphore]
                  capacity == max_concurrent_tasks(registry[i].inner)
              IN  /\ available \in 0..capacity
                  /\ available + HeldByLoop(i) + Cardinality(HeldByTasks(i)) = capacity)
    /\ [][/\ registry' = registry
          /\ \A i \in Listeners :
                 LET s == registry[i].semaphore
                 IN  /\ semaphores'[s] < semaphores[s] =>
                            /\ semaphores'[s] = semaphores[s] - 1
                            /\ loop.pc = "acquire" /\ loop.listener = i
                            /\ loop'.pc = "spawn"
                     /\ semaphores'[s] > semaphores[s] =>
                            /\ semaphores'[s] = semaphores[s] + 1
                            /\ \E d \in Deliveries :
                                   /\ tasks[d].listener = i
                                   /\ tasks[d].permit /\ ~tasks'[d].permit]_vars

\* C16 witness: of a listener of several permits, one is held by the loop
\* about to spawn, one by a task, and the rest is available.
C16_Witness ==
    \E i \in Listeners :
        /\ max_concurrent_tasks(registry[i].inner) > 1
        /\ HeldByLoop(i) = 1
        /\ Cardinality(HeldByTasks(i)) = 1
        /\ semaphores[registry[i].semaphore] = max_concurrent_tasks(registry[i].inner) - 2

\* C17: the step that spawns a task leaves the loop at consumer.next(), the
\* task not yet polled; and no step of the loop waits for a task: at
\* consumer.next() it takes whatever delivery the stream yields, with a
\* permit available it acquires, with the permit it spawns.
C17_LoopDoesNotWaitForTasks ==
    /\ [][(loop.pc = "spawn" /\ loop' # loop) =>
              /\ loop'.pc = "next"
              /\ tasks'[loop.delivery].pc = "spawned"]_vars
    /\ []((loop.pc = "next" /\ Len(yielded) < Queued) =>
              \A e \in Exchanges : ENABLED consume_next_delivery(e))
    /\ []((loop.pc = "acquire"
              /\ PermitAvailable(semaphores[registry[loop.listener].semaphore])) =>
              ENABLED consume_acquire)
    /\ [](loop.pc = "spawn" => ENABLED consume_spawn)

\* C17 witness: two deliveries of the same listener are inside consume at the
\* same time, and the loop is back at consumer.next().
C17_Witness ==
    \E d1, d2 \in Spawned :
        /\ d1 # d2
        /\ tasks[d1].listener = tasks[d2].listener
        /\ tasks[d1].pc = "consume"
        /\ tasks[d2].pc = "consume"
        /\ loop.pc = "next"

\* The stream has kept to the claim's premises so far: no item is an error
\* and every delivery is for an exchange that has a listener.
StreamWellFormed ==
    \A k \in 1..Len(yielded) :
        /\ yielded[k].kind # "error"
        /\ yielded[k].kind = "delivery" => ~Unroutable(k)

\* The stream has ended, the loop has returned Ok(()), and every delivery
\* yielded has been dispatched and got its one ack / reject, its task at its end.
AllSettled ==
    /\ loop.pc = "returned_ok"
    /\ loop.result = "Ok"
    /\ \A d \in Yielded :
           /\ tasks[d].pc = "done"
           /\ Len(calls[d]) = 1
           /\ calls[d][1].kind \in {"ack", "reject"}

\* C18: with the loop and the tasks scheduled fairly, a stream that yields its
\* next item, and every consume returning: when the stream yields only
\* deliveries that have a listener and then ends, eventually the loop has
\* returned Ok(()) and every delivery yielded has been dispatched and has got
\* exactly one ack / reject, whether those calls succeeded or failed.
C18_ProgressToClosed == []StreamWellFormed => <>[]AllSettled

\* C18 witness: the loop has returned Ok(()) after the end of a stream of as
\* many deliveries as the broker held, every one has got its one call, and
\* the call of one of them has failed.
C18_Witness ==
    /\ loop.pc = "returned_ok"
    /\ Cardinality(Yielded) = Queued
    /\ \A d \in Yielded : Len(calls[d]) = 1 /\ tasks[d].pc \in {"log_error", "done"}
    /\ \E d \in Yielded : tasks[d].pc = "log_error"

\* C19: for every listener that deliveries are routed to, the permits_used
\* gauge of its exchange is never above its max_concurrent_tasks.
C19_GaugeWithinMax ==
    \A i \in Listeners :
        ~Shadowed(i) =>
            gaugeUsed[exchange_name(registry[i].inner)]
                <= max_concurrent_tasks(registry[i].inner)

\* C20: the listener list is either in the Consumer, with no loop started, or
\* has been moved out to the one loop, and then it never changes: after the
\* move every call of add_listener, spawn or get_consumer only panics ("No
\* listeners found") and leaves the registry, the loop and the semaphores as
\* they are, and the registry is set once, by the step that empties the
\* Consumer's list.  A spawn / get_consumer that panics because no transport
\* consumer was set leaves the listener list in the Consumer.
C20_RegistryMovedOnceNeverMutated ==
    /\ [](IF listeners.some
          THEN loop.pc = "unstarted" /\ registry = << >>
          ELSE loop.pc # "unstarted" /\ listeners.vec = << >>)
    /\ [](apiPanic = NoConsumerSet => listeners.some /\ loop.pc = "unstarted")
    /\ [][registry' # registry =>
              /\ listeners.some /\ ~listeners'.some
              /\ loop.pc = "unstarted"
              /\ registry' = listeners.vec]_vars
    /\ [][(~listeners.some /\ apiVars' # apiVars) =>
              /\ apiPanic = "none"
              /\ apiPanic' = NoListenersFound
              /\ UNCHANGED << consumer, listeners, registry, loop, semaphores, tasks >>]_vars
    /\ [][(loop.pc # "unstarted" /\ loop.pc # "returned") => loop'.pc # "returned"]_vars
    /\ [][(apiPanic' = NoConsumerSet /\ apiPanic # NoConsumerSet) =>
              /\ ~consumer
              /\ listeners.some
              /\ UNCHANGED << listeners, registry, loop, semaphores >>]_vars

\* C20 witness: a call on the Consumer has panicked with "No listeners found"
\* while the loop runs with its registry of two listeners and a task is
\* inside consume.
C20_Witness ==
    /\ apiPanic = NoListenersFound
    /\ ~listeners.some
    /\ Len(registry) = 2
    /\ loop.pc = "next"
    /\ \E d \in Spawned : tasks[d].pc = "consume"

====
